---- MODULE Spec2Model ----
(***************************************************************************)
(* Model of src/runtime/serverHandler/api/purgeTags.ts: the purge-tags     *)
(* event handler, the DebouncedInvalidator singleton (tag buffer, timer,   *)
(* lazily set cache context and delay) and the asynchronous sweep that     *)
(* invalidate() runs over the caches of the context.                       *)
(*                                                                         *)
(* JavaScript runs each synchronous stretch of code to completion, so one  *)
(* action is one stretch between two awaits: the handler is cut at         *)
(* checkAuth, readBody and getModuleConfig, the sweep at every getKeys,    *)
(* getItem and removeItem.                                                 *)
(***************************************************************************)
EXTENDS Integers, Sequences, FiniteSets, TLC

\* ------------------------------------------------------------- bounds
\* Number of PurgeTags requests the model lets arrive.
MaxRequests == 2
\* Number of backend calls (getKeys/getItem/removeItem) that may reject.
MaxFailures == 1

\* ---------------------------------------------------------- constants
\* The value of a field that was never assigned (delay: number | undefined).
Undefined == -1
\* settings.DEFAULT_CACHE_TAG_INVALIDATION_DELAY, imported by the handler.
DEFAULT_CACHE_TAG_INVALIDATION_DELAY == 60000
\* The values moduleConfig.api?.cacheTagInvalidationDelay may have; 0 stands
\* for both "unset" and 0, which `||` treats alike.
ConfigDelays == {0, 500}

\* Request bodies as readBody delivers them: null, a single string, arrays.
Body(kind, val) == [kind |-> kind, val |-> val]
Bodies ==
    { Body("null", <<>>),
      Body("string", <<"t1">>),
      Body("array", <<>>),
      Body("array", <<"t1">>),
      Body("array", <<"t1", "t2">>),
      Body("array", <<"t2", "t1", "t2">>) }

\* ------------------------------------------------------- cache backends
\* The keys of NuxtMultiCacheSSRContext in for-in order, and which of the
\* caches are enabled (a disabled cache is undefined in the context).
Backends == <<"component", "data", "route">>
Enabled == [b \in {"component", "data", "route"} |->
               b \in {"data", "route"}]
Keys == <<"k1", "k2">>

Item(kind, hasTags, cacheTags) ==
    [kind |-> kind, hasTags |-> hasTags, cacheTags |-> cacheTags]
Absent == Item("null", FALSE, <<>>)

\* The cache contents when the first request arrives.
InitialStore ==
    [b \in {"component", "data", "route"} |->
        CASE b = "component" ->
                 [k \in {"k1", "k2"} |->
                     IF k = "k1" THEN Item("object", TRUE, <<"t1">>)
                                 ELSE Absent]
          [] b = "data" ->
                 [k \in {"k1", "k2"} |->
                     IF k = "k1" THEN Item("object", TRUE, <<"t1", "t2">>)
                                 ELSE Item("object", TRUE, <<"t3">>)]
          [] OTHER ->
                 [k \in {"k1", "k2"} |->
                     IF k = "k1" THEN Item("object", FALSE, <<>>)
                                 ELSE Item("object", TRUE, <<"t2">>)]]

VARIABLES
    tags,          \* invalidator.tags: the buffer of pending tags
    timeout,       \* invalidator.timeout: 0 is null, else the timer's id
    delay,         \* invalidator.delay
    cacheContext,  \* invalidator.cacheContext: "undefined" or "context"
    timers,        \* the timers setTimeout has armed and that have not fired
    armed,         \* number of setTimeout calls so far (the last timer id)
    moduleConfig,  \* what getModuleConfig() resolves to (the delay setting)
    req,           \* the requests: where each handler run stands
    response,      \* what the last finished handler run answered
    sweeps,        \* the invalidate() runs that passed the context guard
    runs,          \* number of invalidate() calls so far
    window,        \* tags handed to add() since the buffer was last drained
    store,         \* the contents of the caches
    failures       \* number of backend calls that have rejected

vars == <<tags, timeout, delay, cacheContext, timers, armed, moduleConfig,
          req, response, sweeps, runs, window, store, failures>>


\* ------------------------------------------------------- pure helpers
Range(s) == {s[i] : i \in 1..Len(s)}

\* Array.prototype.includes
Includes(self, v) == \E i \in 1..Len(self) : self[i] = v

\* Array.prototype.indexOf, 1-based; 0 when v is not in self.
IndexOf(self, v) ==
    IF Includes(self, v)
    THEN CHOOSE i \in 1..Len(self) :
             self[i] = v /\ \A j \in 1..(i - 1) : self[j] # v
    ELSE 0

\* onlyUnique(value, index, self): the filter callback of invalidate().
onlyUnique(value, index, self) == IndexOf(self, value) = index

\* this.tags.filter(onlyUnique), from position i on.
RECURSIVE FilterOnlyUnique(_, _)
FilterOnlyUnique(self, i) ==
    IF i > Len(self) THEN <<>>
    ELSE (IF onlyUnique(self[i], i, self) THEN <<self[i]>> ELSE <<>>)
             \o FilterOnlyUnique(self, i + 1)

\* The forEach of add(): push every tag the buffer does not include yet.
PushAll(buf, ts) == buf \o ts
RECURSIVE PushMissing(_, _)
PushMissing(buf, ts) ==
    IF ts = <<>> THEN buf
    ELSE PushMissing(IF Includes(buf, Head(ts)) THEN buf
                     ELSE Append(buf, Head(ts)),
                     Tail(ts))

\* The guard of add(): `!this.timeout`.
ArmAlways(handle) == TRUE
\* The guard with its negation lost: `this.timeout`.
ArmWhenArmed(handle) == handle # 0
NoTimeout(handle) == handle = 0

\* itemCacheTags.some((v) => tags.includes(v))
PurgeIfEvery(itemCacheTags, ts) ==
    \A i \in 1..Len(itemCacheTags) : Includes(ts, itemCacheTags[i])
shouldPurge(itemCacheTags, ts) ==
    \E i \in 1..Len(itemCacheTags) : Includes(ts, itemCacheTags[i])

\* `item && typeof item === 'object' && 'cacheTags' in item`
HasCacheTags(item) == item.kind = "object" /\ item.hasTags

\* getTagsToPurge: `body && Array.isArray(body)`, else the 400 error.
Truthy(body) == body.kind # "null"
IsArray(body) == body.kind = "array"
ValidBody(body) == Truthy(body) /\ IsArray(body)

\* What getMultiCacheContext(event) may return: the context the module put
\* on the event, or undefined when there is none.
getMultiCacheContext == {"undefined", "context"}

\* `moduleConfig.api?.cacheTagInvalidationDelay || DEFAULT_...`
ConfiguredDelay(cfg) ==
    IF cfg # 0 THEN cfg ELSE DEFAULT_CACHE_TAG_INVALIDATION_DELAY

\* The first enabled cache at or after position i of the for-in loop;
\* Len(Backends) + 1 when the loop is over.
RECURSIVE NextEnabled(_)
NextEnabled(i) ==
    IF i > Len(Backends) THEN i
    ELSE IF Enabled[Backends[i]] THEN i
    ELSE NextEnabled(i + 1)

\* cache.getKeys(): the keys that hold an item, in key order.
GetKeys(b) == SelectSeq(Keys, LAMBDA k : store[b][k] # Absent)

\* ------------------------------------------------------------- Init
NoBody == Body("null", <<>>)
NoResponse == [body |-> NoBody, status |-> 0, tags |-> <<>>]
\* A handler run: where it stands, and its local `tags` once read.
Request(pc, ts) == [pc |-> pc, tags |-> ts]

Init ==
    /\ tags = <<>>
    /\ timeout = 0
    /\ delay = Undefined
    /\ cacheContext = "undefined"
    /\ timers = {}
    /\ armed = 0
    /\ moduleConfig \in ConfigDelays
    /\ req = [r \in 1..MaxRequests |-> Request("new", <<>>)]
    /\ response = NoResponse
    /\ sweeps = <<>>
    /\ runs = 0
    /\ window = {}
    /\ store = InitialStore
    /\ failures = 0

\* ------------------------------------------- DebouncedInvalidator.add
\* add() as a debounce that restarts the delay: every call drops the pending
\* timer and arms a new one.
addResetting(ts, d) ==
    /\ tags' = PushMissing(tags, ts)
    /\ window' = window \cup Range(ts)
    /\ armed' = armed + 1
    /\ timeout' = armed + 1
    /\ timers' = {[id |-> armed + 1, delay |-> d]}

\* add() waiting for the sweeps in progress before it touches the buffer.
addAfterSweeps(ts, d) ==
    /\ \A i \in 1..Len(sweeps) : sweeps[i].phase \in {"done", "rejected"}
    /\ tags' = PushMissing(tags, ts)
    /\ window' = window \cup Range(ts)
    /\ IF timeout = 0
       THEN /\ armed' = armed + 1
            /\ timeout' = armed + 1
            /\ timers' = timers \cup {[id |-> armed + 1, delay |-> d]}
       ELSE UNCHANGED <<timeout, timers, armed>>

\* add() calling clearTimeout on the pending timer of the window.
addCancelling(ts, d) ==
    /\ tags' = PushMissing(tags, ts)
    /\ window' = window \cup Range(ts)
    /\ IF timeout = 0
       THEN /\ armed' = armed + 1
            /\ timeout' = armed + 1
            /\ timers' = timers \cup {[id |-> armed + 1, delay |-> d]}
       ELSE /\ timers' = {}
            /\ UNCHANGED <<timeout, armed>>

\* add(ts) called while this.delay is d.
add(ts, d) ==
    /\ tags' = PushMissing(tags, ts)
    /\ window' = window \cup Range(ts)
    /\ IF NoTimeout(timeout)
       THEN /\ armed' = armed + 1
            /\ timeout' = armed + 1
            /\ timers' = timers \cup {[id |-> armed + 1, delay |-> d]}
       ELSE UNCHANGED <<timeout, timers, armed>>

\* ------------------------------------------------- the event handler
\* The handler run r ends: it returns or throws.
Finish(r, body, status, ts) ==
    /\ req' = [req EXCEPT ![r] = Request("done", <<>>)]
    /\ response' = [body |-> body, status |-> status, tags |-> ts]

\* A request arrives, checkAuth(event) resolves and the handler awaits
\* readBody(event).
Receive(r) ==
    /\ req[r].pc = "new"
    /\ \A q \in 1..(r - 1) : req[q].pc # "new"
    /\ req' = [req EXCEPT ![r].pc = "body"]
    /\ UNCHANGED <<tags, timeout, delay, cacheContext, timers, armed,
                   moduleConfig, response, sweeps, runs, window, store,
                   failures>>

\* A request arrives and checkAuth throws; the request ends with its error.
CheckAuthThrows(r) ==
    /\ req[r].pc = "new"
    /\ \A q \in 1..(r - 1) : req[q].pc # "new"
    /\ Finish(r, NoBody, 401, <<>>)
    /\ UNCHANGED <<tags, timeout, delay, cacheContext, timers, armed,
                   moduleConfig, sweeps, runs, window, store, failures>>

\* readBody resolves to body: getTagsToPurge returns or throws, and the
\* handler runs on to its next await (getModuleConfig) or to its return.
ReadBodyResolves(r, body) ==
    /\ req[r].pc = "body"
    /\ IF ~ValidBody(body)
       THEN /\ Finish(r, body, 400, <<>>)
            /\ UNCHANGED <<tags, timeout, cacheContext, timers, armed,
                           window>>
       ELSE IF cacheContext = "undefined"
       THEN /\ \E c \in getMultiCacheContext : cacheContext' = c
            /\ req' = [req EXCEPT ![r] = Request("config", body.val)]
            /\ UNCHANGED <<tags, timeout, timers, armed, window, response>>
       ELSE /\ add(body.val, delay)
            /\ Finish(r, body, 200, body.val)
            /\ UNCHANGED cacheContext
    /\ UNCHANGED <<delay, moduleConfig, sweeps, runs, store, failures>>

\* getModuleConfig resolves: the delay is set, add() runs, the handler
\* returns.
ModuleConfigResolves(r) ==
    /\ req[r].pc = "config"
    /\ delay' = ConfiguredDelay(moduleConfig)
    /\ add(req[r].tags, delay')
    /\ Finish(r, Body("array", req[r].tags), 200, req[r].tags)
    /\ UNCHANGED <<cacheContext, moduleConfig, sweeps, runs, store,
                   failures>>

\* ------------------------------------ DebouncedInvalidator.invalidate
Sweep(ts, bi, phase, keys, deleted, seen) ==
    [tags |-> ts, bi |-> bi, phase |-> phase, keys |-> keys,
     deleted |-> deleted, seen |-> seen]

\* The loop reaches position bi of the for-in: it calls getKeys there, or
\* the sweep is over.
AtBackend(s, bi) ==
    [s EXCEPT !.bi = bi,
              !.keys = <<>>,
              !.phase = IF bi > Len(Backends) THEN "done" ELSE "getKeys"]

\* The loop is done with the first key of s.keys.
NextKey(s) ==
    IF Tail(s.keys) = <<>>
    THEN AtBackend(s, NextEnabled(s.bi + 1))
    ELSE [s EXCEPT !.keys = Tail(s.keys), !.phase = "getItem"]

\* invalidate() without its guard on the cache context.
TimerFiresUnguarded(t) ==
    /\ t \in timers
    /\ timers' = timers \ {t}
    /\ runs' = runs + 1
    /\ sweeps' = Append(sweeps,
           AtBackend(Sweep(FilterOnlyUnique(tags, 1), 0, "new", <<>>, {}, {}),
                     NextEnabled(1)))
    /\ tags' = <<>>
    /\ timeout' = 0
    /\ window' = {}
    /\ UNCHANGED <<delay, cacheContext, armed, moduleConfig, req, response,
                   store, failures>>

\* invalidate() resetting the handle after its loop instead of before it:
\* nothing is reset up to the first await.
TimerFiresKeepsHandle(t) ==
    /\ t \in timers
    /\ timers' = timers \ {t}
    /\ runs' = runs + 1
    /\ IF cacheContext = "undefined"
       THEN UNCHANGED <<tags, timeout, sweeps, window>>
       ELSE /\ sweeps' = Append(sweeps,
                  AtBackend(Sweep(FilterOnlyUnique(tags, 1), 0, "new",
                                  <<>>, {}, {}),
                            NextEnabled(1)))
            /\ tags' = <<>>
            /\ window' = {}
            /\ UNCHANGED timeout
    /\ UNCHANGED <<delay, cacheContext, armed, moduleConfig, req, response,
                   store, failures>>

\* invalidate() without `this.tags = []`: the buffer is copied, not drained.
TimerFiresKeepsBuffer(t) ==
    /\ t \in timers
    /\ timers' = timers \ {t}
    /\ runs' = runs + 1
    /\ IF cacheContext = "undefined"
       THEN UNCHANGED <<tags, timeout, sweeps, window>>
       ELSE /\ sweeps' = Append(sweeps,
                  AtBackend(Sweep(FilterOnlyUnique(tags, 1), 0, "new",
                                  <<>>, {}, {}),
                            NextEnabled(1)))
            /\ timeout' = 0
            /\ UNCHANGED <<tags, window>>
    /\ UNCHANGED <<delay, cacheContext, armed, moduleConfig, req, response,
                   store, failures>>

\* The timer fires: invalidate() runs up to its first await.
TimerFires(t) ==
    /\ t \in timers
    /\ timers' = timers \ {t}
    /\ runs' = runs + 1
    /\ IF cacheContext = "undefined"
       THEN UNCHANGED <<tags, timeout, sweeps, window>>
       ELSE /\ sweeps' = Append(sweeps,
                  AtBackend(Sweep(FilterOnlyUnique(tags, 1), 0, "new",
                                  <<>>, {}, {}),
                            NextEnabled(1)))
            /\ tags' = <<>>
            /\ timeout' = 0
            /\ window' = {}
    /\ UNCHANGED <<delay, cacheContext, armed, moduleConfig, req, response,
                   store, failures>>

\* `await cache.getKeys()` resolves.
GetKeysResolves(i) ==
    /\ i \in 1..Len(sweeps)
    /\ sweeps[i].phase = "getKeys"
    /\ LET s == sweeps[i]
           b == Backends[s.bi]
           ks == GetKeys(b)
           s1 == [s EXCEPT !.seen = @ \cup {<<b, k>> : k \in Range(ks)}]
       IN sweeps' = [sweeps EXCEPT ![i] =
              IF ks = <<>> THEN AtBackend(s1, NextEnabled(s.bi + 1))
              ELSE [s1 EXCEPT !.keys = ks, !.phase = "getItem"]]
    /\ UNCHANGED <<tags, timeout, delay, cacheContext, timers, armed,
                   moduleConfig, req, response, runs, window, store,
                   failures>>

\* `await cache.getItem(cacheKey)` resolves.
GetItemResolves(i) ==
    /\ i \in 1..Len(sweeps)
    /\ sweeps[i].phase = "getItem"
    /\ LET s == sweeps[i]
           item == store[Backends[s.bi]][Head(s.keys)]
       IN sweeps' = [sweeps EXCEPT ![i] =
              IF HasCacheTags(item) /\ shouldPurge(item.cacheTags, s.tags)
              THEN [s EXCEPT !.phase = "removeItem"]
              ELSE NextKey(s)]
    /\ UNCHANGED <<tags, timeout, delay, cacheContext, timers, armed,
                   moduleConfig, req, response, runs, window, store,
                   failures>>

\* removeItem followed by a return out of invalidate() instead of the next
\* key.
RemoveItemReturns(i) ==
    /\ i \in 1..Len(sweeps)
    /\ sweeps[i].phase = "removeItem"
    /\ LET s == sweeps[i]
           b == Backends[s.bi]
           k == Head(s.keys)
       IN /\ store' = [store EXCEPT ![b][k] = Absent]
          /\ sweeps' = [sweeps EXCEPT ![i] =
                 AtBackend([s EXCEPT !.deleted = @ \cup {<<b, k>>}],
                           Len(Backends) + 1)]
    /\ UNCHANGED <<tags, timeout, delay, cacheContext, timers, armed,
                   moduleConfig, req, response, runs, window, failures>>

\* `await cache.removeItem(cacheKey)` resolves.
RemoveItemResolves(i) ==
    /\ i \in 1..Len(sweeps)
    /\ sweeps[i].phase = "removeItem"
    /\ LET s == sweeps[i]
           b == Backends[s.bi]
           k == Head(s.keys)
       IN /\ store' = [store EXCEPT ![b][k] = Absent]
          /\ sweeps' = [sweeps EXCEPT ![i] =
                 NextKey([s EXCEPT !.deleted = @ \cup {<<b, k>>}])]
    /\ UNCHANGED <<tags, timeout, delay, cacheContext, timers, armed,
                   moduleConfig, req, response, runs, window, failures>>

\* A backend call rejects: nothing in invalidate() catches it, so the
\* async function ends there with a rejected promise.
BackendCallRejects(i) ==
    /\ i \in 1..Len(sweeps)
    /\ sweeps[i].phase \in {"getKeys", "getItem", "removeItem"}
    /\ failures < MaxFailures
    /\ failures' = failures + 1
    /\ sweeps' = [sweeps EXCEPT ![i].phase = "rejected"]
    /\ UNCHANGED <<tags, timeout, delay, cacheContext, timers, armed,
                   moduleConfig, req, response, runs, window, store>>

\* ------------------------------------------------------ specification
Next ==
    \/ \E r \in 1..MaxRequests : Receive(r)
    \/ \E r \in 1..MaxRequests : CheckAuthThrows(r)
    \/ \E r \in 1..MaxRequests, b \in Bodies : ReadBodyResolves(r, b)
    \/ \E r \in 1..MaxRequests : ModuleConfigResolves(r)
    \/ \E t \in timers : TimerFires(t)
    \/ \E i \in 1..MaxRequests : GetKeysResolves(i)
    \/ \E i \in 1..MaxRequests : GetItemResolves(i)
    \/ \E i \in 1..MaxRequests : RemoveItemResolves(i)
    \/ \E i \in 1..MaxRequests : BackendCallRejects(i)

Spec == Init /\ [][Next]_vars

\* The program when every backend call returns (none rejects), with the
\* scheduling the event loop gives: a pending timer fires, and an awaited
\* backend call that can resolve does.
NextReturning ==
    \/ \E r \in 1..MaxRequests : Receive(r)
    \/ \E r \in 1..MaxRequests : CheckAuthThrows(r)
    \/ \E r \in 1..MaxRequests, b \in Bodies : ReadBodyResolves(r, b)
    \/ \E r \in 1..MaxRequests : ModuleConfigResolves(r)
    \/ \E t \in timers : TimerFires(t)
    \/ \E i \in 1..MaxRequests : GetKeysResolves(i)
    \/ \E i \in 1..MaxRequests : GetItemResolves(i)
    \/ \E i \in 1..MaxRequests : RemoveItemResolves(i)

Fairness ==
    /\ WF_vars(\E t \in timers : TimerFires(t))
    /\ \A i \in 1..MaxRequests :
          /\ WF_vars(GetKeysResolves(i))
          /\ WF_vars(GetItemResolves(i))
          /\ WF_vars(RemoveItemResolves(i))

LiveSpec == Init /\ [][NextReturning]_vars /\ Fairness

\* ------------------------------------------- vocabulary of the claims
NoDuplicates(seq) ==
    \A i, j \in 1..Len(seq) : seq[i] = seq[j] => i = j

EnabledBackends == {b \in Range(Backends) : Enabled[b]}

\* The item stored under b/k when the first request arrived carries a
\* cacheTags list that shares a tag with ts.
Matches(b, k, ts) ==
    /\ InitialStore[b][k].kind = "object"
    /\ InitialStore[b][k].hasTags
    /\ Range(InitialStore[b][k].cacheTags) \cap Range(ts) # {}

\* invalidate() was called in this step (a timer expired).
TimerExpired == runs' = runs + 1

\* The handler run r returned or threw in this step.
Finished(r) == req[r].pc # "done" /\ req'[r].pc = "done"

\* add() was called in this step, with the tags the response echoes.
AddCalled == \E r \in 1..MaxRequests : Finished(r) /\ response'.status = 200

\* The keys a rejected backend call kept the sweep s from handling: the
\* key it was at, or the whole cache when getKeys rejected.
FailedKeys(s) ==
    IF s.phase # "rejected" THEN {}
    ELSE IF s.keys # <<>> THEN {<<Backends[s.bi], Head(s.keys)>>}
    ELSE {<<Backends[s.bi], k>> : k \in Range(Keys)}

\* ------------------------------------------------------------ claims

\* C1: debounce coalescing. Every timer expiry starts exactly one sweep, and
\* the tag set of that sweep is the union of the tags of all add() calls of
\* the window the expiry ends.
C1_DebounceCoalescing ==
    [][TimerExpired =>
          /\ Len(sweeps') = Len(sweeps) + 1
          /\ Range(sweeps'[Len(sweeps')].tags) = window]_vars

\* C2: no lost and no double-processed tags. The tags handed to add() and
\* not yet handed to a sweep are exactly the tags of the buffer, and a timer
\* is pending that will hand them to the next sweep.
C2_NoLostTags ==
    /\ window = Range(tags)
    /\ window # {} => timers # {}

\* C3: at most one debounce timer is outstanding in every reachable state;
\* while one is pending it is the one the handle names.
C3_AtMostOneTimer ==
    /\ Cardinality(timers) <= 1
    /\ \A t \in timers : timeout = t.id

\* C3 witness: two add() calls fell into one window ([t1], then
\* [t2, t1, t2]) and its single timer is still pending.
C3_Witness ==
    /\ tags = <<"t1", "t2">>
    /\ armed = 1
    /\ Cardinality(timers) = 1

\* C4: after every timer expiry the pending tag set and the timer handle are
\* both cleared, the expiry without cache context included.
C4_ClearedAfterExpiry ==
    [][TimerExpired => tags' = <<>> /\ timeout' = 0]_vars

\* C5: eviction correctness. When a sweep with tag set T has completed, every
\* item of an enabled cache whose cacheTags meet T is gone, the sweep deleted
\* only enumerated items whose cacheTags meet T, an item that no sweep's
\* tag set meets (no cacheTags, or disjoint cacheTags) is still in place,
\* and the caches that are not enabled are untouched.
C5_EvictionCorrect ==
    \A i \in 1..Len(sweeps) :
        sweeps[i].phase = "done" =>
            /\ sweeps[i].deleted \subseteq sweeps[i].seen
            /\ \A b \in EnabledBackends, k \in Range(Keys) :
                  /\ Matches(b, k, sweeps[i].tags) => store[b][k] = Absent
                  /\ <<b, k>> \in sweeps[i].deleted
                         => Matches(b, k, sweeps[i].tags)
                  /\ (\A j \in 1..Len(sweeps) :
                          ~Matches(b, k, sweeps[j].tags))
                         => store[b][k] = InitialStore[b][k]
            /\ \A b \in Range(Backends) \ EnabledBackends :
                  store[b] = InitialStore[b]

\* C5 witness: the sweep for [t1] has completed without a backend failure;
\* data/k1 ([t1, t2]) is deleted and data/k2 ([t3]) remains.
C5_Witness ==
    /\ failures = 0
    /\ \E i \in 1..Len(sweeps) :
          sweeps[i].phase = "done" /\ sweeps[i].tags = <<"t1">>
    /\ store["data"]["k1"] = Absent
    /\ store["data"]["k2"] = InitialStore["data"]["k2"]

\* C6: backend isolation. A sweep in which a backend call failed still ends
\* with every other item whose cacheTags meet its tag set deleted.
C6_BackendIsolation ==
    \A i \in 1..Len(sweeps) :
        sweeps[i].phase \in {"done", "rejected"} =>
            \A b \in EnabledBackends, k \in Range(Keys) :
                Matches(b, k, sweeps[i].tags)
                    /\ <<b, k>> \notin FailedKeys(sweeps[i])
                    => store[b][k] = Absent

\* C7: a request whose payload is null, not an array or an empty array is
\* answered 400 and changes neither the buffer nor the timer.
C7_InvalidInputRejected ==
    [][\A r \in 1..MaxRequests :
          Finished(r) /\ response'.status # 401
              /\ (response'.body.kind # "array" \/ response'.body.val = <<>>)
          => /\ response'.status = 400
             /\ UNCHANGED <<tags, timeout, timers>>]_vars

\* C8: add() with an empty sequence changes neither the buffer nor the timer
\* handle and arms no timer.
C8_AddEmptyIsNoOp ==
    [][AddCalled /\ response'.tags = <<>>
          => UNCHANGED <<tags, timeout, timers>>]_vars

\* C9: a request whose payload is a single tag or an array of tags succeeds:
\* the tags are in the buffer afterwards and the response is OK with them.
C9_SingleTagOrArray ==
    [][\A r \in 1..MaxRequests :
          Finished(r) /\ response'.body.kind \in {"string", "array"}
              /\ response'.body.val # <<>>
          => /\ response'.status = 200
             /\ response'.tags = response'.body.val
             /\ Range(response'.body.val) \subseteq Range(tags')]_vars

\* C10: deduplication. The buffer never holds a tag twice, and neither does
\* the tag list of any sweep.
C10_Deduplication ==
    /\ NoDuplicates(tags)
    /\ \A i \in 1..Len(sweeps) : NoDuplicates(sweeps[i].tags)

\* C10 witness: add([t1]) and add([t2, t1, t2]) fell into one window and its
\* sweep was handed each of the two tags once.
C10_Witness ==
    \E i \in 1..Len(sweeps) : sweeps[i].tags = <<"t1", "t2">>

\* The sweep s is suspended at an awaited backend call.
InProgress(s) == s.phase \in {"getKeys", "getItem", "removeItem"}

\* The sweep i made a step (a backend call of it resolved or rejected).
SweepStepped(i) == i <= Len(sweeps) /\ sweeps'[i] # sweeps[i]

\* C11: fixed-deadline window. An add() call made while a timer is pending
\* leaves the handle and the pending timer (its identity and the delay it
\* was armed with) as they are; only the buffer grows.
C11_FixedDeadline ==
    [][AddCalled /\ timers # {}
          => /\ UNCHANGED <<timeout, timers, armed>>
             /\ Range(tags) \subseteq Range(tags')]_vars

\* C11 witness: add([t2, t1, t2]) armed timer 1 and add([t1]) came while it
\* was pending; timer 1 is still the pending one.
C11_Witness ==
    /\ tags = <<"t2", "t1">>
    /\ response.tags = <<"t1">>
    /\ \E t \in timers : t.id = 1 /\ timeout = 1

\* C12: every timer is armed with the configured delay (the setting, or the
\* default when it is unset), never with an unset value.
C12_TimerDelayConfigured ==
    \A t \in timers : t.delay = ConfiguredDelay(moduleConfig)

\* C13: add() is never blocked by a sweep. While a sweep is suspended on a
\* backend call, a handler run that is about to call add() can take its
\* step, and that step leaves every sweep as it is, puts its tags into the
\* buffer and leaves a timer pending.
C13_AddNotBlocked ==
    /\ [](\A r \in 1..MaxRequests :
             (\E i \in 1..Len(sweeps) : InProgress(sweeps[i]))
                 => /\ req[r].pc = "config"
                           => ENABLED ModuleConfigResolves(r)
                    /\ req[r].pc = "body"
                           => ENABLED ReadBodyResolves(r,
                                          Body("array", <<"t1">>)))
    /\ [][AddCalled /\ (\E i \in 1..Len(sweeps) : InProgress(sweeps[i]))
             => /\ sweeps' = sweeps
                /\ Range(response'.tags) \subseteq Range(tags')
                /\ timers' # {}
                /\ timeout' # 0]_vars

\* C13 witness: the last sweep drained the buffer, is still suspended on a
\* backend call, and an add() since has filled the buffer and armed a timer.
C13_Witness ==
    /\ Len(sweeps) > 0
    /\ InProgress(sweeps[Len(sweeps)])
    /\ tags # <<>>
    /\ timers # {}

\* C14: a timer expiry while the cache context is not set starts no sweep,
\* touches no cache and raises no error.
C14_NoContextNoSweep ==
    [][TimerExpired /\ cacheContext = "undefined"
          => UNCHANGED <<sweeps, store, failures>>]_vars

\* C14 witness: a timer has expired while the cache context was not set.
C14_Witness == runs >= 1 /\ cacheContext = "undefined" /\ sweeps = <<>>

\* C15: idempotent eviction. Once a sweep has completed, no step of a sweep
\* with the same tag set changes the contents of the caches.
C15_IdempotentEviction ==
    [][\A i, j \in 1..MaxRequests :
          /\ i <= Len(sweeps) /\ i # j /\ SweepStepped(j)
          /\ sweeps[i].phase = "done"
          /\ Range(sweeps[i].tags) = Range(sweeps[j].tags)
          => store' = store]_vars

\* C15 witness: two sweeps for the tags t1, t2 have completed; the first
\* deleted items, the second found nothing left to delete.
C15_Witness ==
    /\ Len(sweeps) = 2
    /\ sweeps[1].phase = "done" /\ sweeps[2].phase = "done"
    /\ Range(sweeps[1].tags) = {"t1", "t2"}
    /\ Range(sweeps[2].tags) = {"t1", "t2"}
    /\ sweeps[1].deleted # {}
    /\ sweeps[2].deleted = {}

\* The sweep i has completed and has enumerated every key that an enabled
\* cache holds.
VisitedAll(i) ==
    /\ Len(sweeps) >= i
    /\ sweeps[i].phase = "done"
    /\ \A b \in EnabledBackends, k \in Range(Keys) :
          store[b][k] # Absent => <<b, k>> \in sweeps[i].seen

\* C16: no cancellation, sweeps run to completion. A pending timer leaves
\* the timers only by firing, and it does fire; a sweep that was started
\* completes, having enumerated every key of every enabled cache (every
\* backend call returning).
C16_RunsToCompletion ==
    /\ [][\A t \in timers : t \notin timers' => TimerExpired]_vars
    /\ \A id \in 1..MaxRequests :
          (\E t \in timers : t.id = id)
              ~> (runs >= id /\ \A t \in timers : t.id # id)
    /\ \A i \in 1..MaxRequests : (Len(sweeps) >= i) ~> VisitedAll(i)

\* C16 witness: the timer has fired and its sweep for t1, t2 has completed
\* after enumerating the four keys of the two enabled caches.
C16_Witness ==
    /\ timers = {}
    /\ Len(sweeps) = 1
    /\ sweeps[1].phase = "done"
    /\ Cardinality(sweeps[1].seen) = 4
    /\ sweeps[1].deleted = {<<"data", "k1">>, <<"route", "k2">>}

\* A sweep has ended with a rejected backend call.
SomeSweepRejected == \E i \in 1..Len(sweeps) : sweeps[i].phase = "rejected"

\* C17: pending tags always have a timer handle: whenever the buffer is not
\* empty, this.timeout is set.
C17_PendingTagsHaveHandle == tags # <<>> => timeout # 0

\* C17 witness: add([t1]) has put t1 into the buffer and armed timer 1.
C17_Witness ==
    /\ tags = <<"t1">>
    /\ timeout = 1
    /\ timers = {[id |-> 1, delay |-> ConfiguredDelay(moduleConfig)]}

\* C18: a sweep that ended with a rejected backend call leaves the scheduler
\* intact. The handle is set exactly while a timer is pending, the buffer
\* holds exactly the tags added since the last drain and a timer is pending
\* for them, the next add() leaves a timer pending, and the next expiry
\* starts a new sweep with the tags of its window.
C18_AbortLeavesSchedulerIntact ==
    /\ [](SomeSweepRejected =>
             /\ cacheContext = "context"
             /\ timeout = 0 <=> timers = {}
             /\ Range(tags) = window
             /\ tags # <<>> => timers # {})
    /\ [][SomeSweepRejected /\ AddCalled
             => timers' # {} /\ timeout' # 0]_vars
    /\ [][SomeSweepRejected /\ TimerExpired
             => /\ Len(sweeps') = Len(sweeps) + 1
                /\ Range(sweeps'[Len(sweeps')].tags) = window]_vars

\* C18 witness: the sweep for t1, t2 ended with a rejected backend call, and
\* the sweep of a later window, started for t1, has completed.
C18_Witness ==
    /\ Len(sweeps) = 2
    /\ sweeps[1].phase = "rejected"
    /\ sweeps[1].tags = <<"t1", "t2">>
    /\ sweeps[2].phase = "done"
    /\ sweeps[2].tags = <<"t1">>

\* C19 as claimed: at most one sweep is in progress in every reachable state.
C19_OneSweepAtATime ==
    Cardinality({i \in 1..Len(sweeps) : InProgress(sweeps[i])}) <= 1

\* C19 as amended: sweeps may overlap, but a sweep starts only at a timer
\* expiry, one per expiry; it takes the whole buffer of its window (buffer
\* empty and handle null afterwards) and its start changes no other sweep.
C19_SweepsStartAtExpiry ==
    [][Len(sweeps') # Len(sweeps)
          => /\ TimerExpired
             /\ Len(sweeps') = Len(sweeps) + 1
             /\ \A i \in 1..Len(sweeps) : sweeps'[i] = sweeps[i]
             /\ Range(sweeps'[Len(sweeps')].tags) = window
             /\ tags' = <<>>
             /\ timeout' = 0]_vars

\* C19 witness: two sweeps are suspended on backend calls at the same time.
C19_Witness ==
    /\ Len(sweeps) = 2
    /\ InProgress(sweeps[1])
    /\ InProgress(sweeps[2])

====
